---- MODULE Spec2Model ----
(***************************************************************************)
(* Other Library: the username lifecycle (change_username, aliases,       *)
(* redirects) and the visibility rules (can_view_profile,                  *)
(* can_view_user_book, follows) of supabase/schema.sql, with the web      *)
(* handlers that call them.                                                *)
(*                                                                         *)
(* Text values are sequences of one-character strings.  SQL booleans are  *)
(* three-valued: SqlTrue, SqlFalse, SqlNull.  A change_username call is   *)
(* one READ COMMITTED transaction whose statements interleave with the    *)
(* statements of the other sessions.                                      *)
(***************************************************************************)
EXTENDS Integers, Sequences, FiniteSets, TLC

\* ------------------------------------------------------------------ bounds
\* Rows of user_books that are ever inserted (ids 1..MaxBooks).
MaxBooks == 2
\* auth.users rows that are ever deleted.
MaxDeletes == 1

\* ------------------------------------------------------------- text values
NULL == "NULL"
NoText == <<>>

SqlTrue == "t"
SqlFalse == "f"
SqlNull == "null"

Bool3(b) == IF b THEN SqlTrue ELSE SqlFalse

Or3(a, b) ==
  IF a = SqlTrue \/ b = SqlTrue THEN SqlTrue
  ELSE IF a = SqlNull \/ b = SqlNull THEN SqlNull
  ELSE SqlFalse

And3(a, b) ==
  IF a = SqlFalse \/ b = SqlFalse THEN SqlFalse
  ELSE IF a = SqlNull \/ b = SqlNull THEN SqlNull
  ELSE SqlTrue

\* uuid = uuid: NULL when either side is NULL.
Eq3(x, y) ==
  IF x = NULL \/ y = NULL THEN SqlNull ELSE Bool3(x = y)

LowerOf(c) ==
  CASE c = "A" -> "a"
    [] c = "B" -> "b"
    [] c = "N" -> "n"
    [] c = "O" -> "o"
    [] OTHER -> c

RECURSIVE LTrim(_)
LTrim(s) == IF s # <<>> /\ Head(s) = " " THEN LTrim(Tail(s)) ELSE s

RECURSIVE RTrim(_)
RTrim(s) ==
  IF s # <<>> /\ s[Len(s)] = " " THEN RTrim(SubSeq(s, 1, Len(s) - 1)) ELSE s

Trim(s) == RTrim(LTrim(s))

Lower(s) == [i \in 1..Len(s) |-> LowerOf(s[i])]

\* lower(trim(input))
normalize_username(input) == Lower(Trim(input))

UsernameChars ==
  {"a","b","c","d","e","f","g","h","i","j","k","l","m","n","o","p","q","r",
   "s","t","u","v","w","x","y","z","0","1","2","3","4","5","6","7","8","9","_"}

MinUsernameLen == 3
MaxUsernameLen == 24

is_valid_username(input) ==
  /\ Len(input) >= MinUsernameLen
  /\ Len(input) <= MaxUsernameLen
  /\ \A i \in 1..Len(input) : input[i] \in UsernameChars
  /\ input[1] # "_"
  /\ input[Len(input)] # "_"

ReservedUsernames ==
  { <<"a","p","p">>, <<"a","p","i">>, <<"u">>, <<"b">>,
    <<"b","o","o","k","s">>, <<"s","e","t","u","p">>,
    <<"s","e","t","t","i","n","g","s">>,
    <<"a","u","t","h">>, <<"l","o","g","i","n">>,
    <<"l","o","g","o","u","t">>, <<"s","i","g","n","u","p">>,
    <<"s","i","g","n","i","n">>,
    <<"w","w","w">>, <<"a","d","m","i","n">>, <<"r","o","o","t">>,
    <<"s","u","p","p","o","r","t">>, <<"h","e","l","p">> }

is_reserved_username(input) == normalize_username(input) \in ReservedUsernames

\* ------------------------------------------------------------------ inputs
\* auth.users ids; UuidText is the text form of the id (its first characters).
Users == {"u1", "u2"}

UuidText(u) ==
  IF u = "u1" THEN <<"0","0","0","0","0","0","0","1","-","a">>
  ELSE IF u = "u2" THEN <<"0","0","0","0","0","0","0","2","-","b">>
  ELSE <<"0","0","0","0","0","0","0","3","-","c">>

\* The users of the follow graph: a follower, a followee and a third party.
Members == Users \cup {"u3"}

Ann == <<"a","n","n">>
Bob == <<"b","o","b">>
AnnTyped == <<" ","A","n","n">>
App == <<"a","p","p">>
AnnPasted == <<"a","n","n","\t">>

\* What a caller can pass to change_username.
RawNames == { Ann, Bob, AnnTyped, App, <<"_","a","b">>, AnnPasted }

\* raw_user_meta_data->>'username' at sign-up; NoText when it is absent or ''.
MetaNames == { NoText, Ann, App }

\* Usernames a client writes to its profiles row directly.
DirectNames == { Bob, App }

\* Database sessions that can run change_username at the same time.
Sessions == {"s1", "s2"}
BookIds == 1..MaxBooks

ProfileVisibilities == {"followers_only", "public"}
BookVisibilities == {"inherit", "followers_only", "public"}
FollowStatuses == {"pending", "approved", "rejected"}

\* ------------------------------------------------------------------- state
VARIABLES
  profiles,     \* public.profiles: id -> [username, visibility]
  aliases,      \* public.username_aliases: rows [old_username, current_username, user_id]
  follows,      \* public.follows: rows [follower_id, followee_id, status]
  user_books,   \* public.user_books: rows [id, owner_id, visibility]
  next_book_id, \* the identity sequence of user_books.id
  gone,         \* ids of deleted auth.users rows (an id is never issued twice)
  tx,           \* per session: the change_username call in flight
  res,          \* per session: what its call just returned (see Return)
  rivals,       \* per session: sessions whose call overlaps its latest call, made
                \* by another user for the same normalized name, free when the later began
  inserting     \* per session: the insert into follows that is not committed yet

vars == <<profiles, aliases, follows, user_books, next_book_id, gone, tx, res, rivals, inserting>>

db == <<profiles, aliases, follows, user_books, next_book_id, gone>>

IdleTx == [pc |-> "idle", uid |-> NULL, next |-> NoText, prev |-> NoText]
NoRes == [kind |-> "none", uid |-> NULL, old |-> NoText, new |-> NoText, changed |-> FALSE]
NoResults == [s \in Sessions |-> NoRes]
NoInsert == [pc |-> "idle", follower_id |-> NULL, followee_id |-> NULL, status |-> "none"]

Init ==
  /\ profiles = [u \in {} |-> NoRes]
  /\ aliases = {}
  /\ follows = {}
  /\ user_books = {}
  /\ next_book_id = 1
  /\ gone = {}
  /\ tx = [s \in Sessions |-> IdleTx]
  /\ res = NoResults
  /\ rivals = [s \in Sessions |-> {}]
  /\ inserting = [s \in Sessions |-> NoInsert]

\* ------------------------------------------------------- account lifecycle
\* 'user_' || replace(left(user_id::text, 8), '-', '')
generate_default_username(user_id) ==
  <<"u","s","e","r","_">> \o
  SelectSeq(SubSeq(UuidText(user_id), 1, 8), LAMBDA c : c # "-")

\* Some row of profiles has this username (the unique index on username).
UsernameHeld(P, n) == \E u \in DOMAIN P : P[u].username = n

\* Some row of username_aliases has this old_username (its primary key).
AliasHeld(A, n) == \E a \in A : a.old_username = n

\* A session holds the row lock of profile u: its UPDATE of the row is not committed.
HoldsProfileLock(s, u) ==
  tx[s].pc = "finish" /\ tx[s].uid = u /\ u \in DOMAIN profiles

ProfileLocked(u) == \E s \in Sessions : HoldsProfileLock(s, u)

\* An open insert into follows refers to profile u: its foreign-key check holds
\* a lock on the profiles row, and a delete of that row waits for its end.
FollowRowPending(u) ==
  \E s \in Sessions :
    /\ inserting[s].pc = "inserted"
    /\ u \in {inserting[s].follower_id, inserting[s].followee_id}

\* The unique index on profiles.username has an entry for n that an open
\* transaction is adding (its new username) or removing (its old username):
\* a writer of n waits for that transaction to end.
UsernamePending(n, self) ==
  \E s \in Sessions \ {self} :
    /\ HoldsProfileLock(s, tx[s].uid)
    /\ (tx[s].next = n \/ profiles[tx[s].uid].username = n)

\* coalesce(nullif(meta username, ''), generate_default_username(new.id))
NewUsername(u, meta) ==
  IF meta = NoText THEN generate_default_username(u) ELSE meta

\* on_auth_user_created -> handle_new_user: the profiles row of a new auth.users
\* row.  A unique violation on username aborts the sign-up.
CreateAccount(u, meta) ==
  /\ u \notin DOMAIN profiles
  /\ u \notin gone
  /\ ~UsernamePending(NewUsername(u, meta), NULL)
  /\ ~UsernameHeld(profiles, NewUsername(u, meta))
  /\ profiles' = [x \in DOMAIN profiles \cup {u} |->
                    IF x = u
                    THEN [username |-> NewUsername(u, meta), visibility |-> "followers_only"]
                    ELSE profiles[x]]
  /\ res' = NoResults
  /\ UNCHANGED <<aliases, follows, user_books, next_book_id, gone, tx, rivals, inserting>>

\* Deleting the auth.users row: profiles, and with it username_aliases, follows
\* and user_books, go by ON DELETE CASCADE.
DeleteAccount(u) ==
  /\ u \in DOMAIN profiles
  /\ Cardinality(gone) < MaxDeletes
  /\ ~ProfileLocked(u)
  /\ ~FollowRowPending(u)
  /\ profiles' = [x \in DOMAIN profiles \ {u} |-> profiles[x]]
  /\ aliases' = {a \in aliases : a.user_id # u}
  /\ follows' = {f \in follows : f.follower_id # u /\ f.followee_id # u}
  /\ user_books' = {b \in user_books : b.owner_id # u}
  /\ gone' = gone \cup {u}
  /\ res' = NoResults
  /\ UNCHANGED <<next_book_id, tx, rivals, inserting>>

\* ------------------------------------------------------- change_username
\* The aliases left as they are: an earlier name keeps pointing at the name
\* that followed it.
RepointAliases_Skipped(A, uid, next) == A

\* update username_aliases set current_username = next where user_id = uid
RepointAliases(A, uid, next) ==
  {IF a.user_id = uid THEN [a EXCEPT !.current_username = next] ELSE a : a \in A}

\* insert into username_aliases (prev, next, uid) on conflict (old_username) do update
UpsertAlias(A, prev, next, uid) ==
  {a \in A : a.old_username # prev} \cup
  {[old_username |-> prev, current_username |-> next, user_id |-> uid]}

InFlight == {s \in Sessions : tx[s].pc # "idle"}

\* The call returns or raises: the session is idle again.  res keeps what the
\* calls returned for as long as only returns follow one another; any other
\* statement clears it.
Return(s, r) ==
  /\ tx' = [tx EXCEPT ![s] = IdleTx]
  /\ res' = [res EXCEPT ![s] = r]

Failure(uid, kind) ==
  [kind |-> kind, uid |-> uid, old |-> NoText, new |-> NoText, changed |-> FALSE]

Raise(s, kind) == Return(s, Failure(tx[s].uid, kind))

\* The no-op test left out: the call goes on to the availability checks.
SameUsername_Never(next, prev) == FALSE

\* if next = prev then return ... 'changed', false
SameUsername(next, prev) == next = prev

\* The free-name test change_username makes before its writes (lines 163-168),
\* here on the committed rows the session sees when its call begins.
FreeName(n) == ~UsernameHeld(profiles, n) /\ ~AliasHeld(aliases, n)

\* Lines 138-161: auth.uid(), normalize, validate, reserved, select prev, no-op.
RenameBegin(s, uid, raw) ==
  LET next == normalize_username(raw)
      mine == {t \in InFlight : tx[t].uid # uid /\ tx[t].next = next /\ FreeName(next)}
      now(r) == [x \in Sessions |-> IF x = s THEN r ELSE NoRes]
      alone == [x \in Sessions |-> IF x = s THEN {} ELSE rivals[x] \ {s}]
  IN
  /\ tx[s].pc = "idle"
  /\ IF uid = NULL THEN
       /\ res' = now(Failure(uid, "not_authenticated"))
       /\ rivals' = alone
       /\ UNCHANGED tx
     ELSE IF ~is_valid_username(next) THEN
       /\ res' = now(Failure(uid, "invalid_username"))
       /\ rivals' = alone
       /\ UNCHANGED tx
     ELSE IF is_reserved_username(next) THEN
       /\ res' = now(Failure(uid, "reserved_username"))
       /\ rivals' = alone
       /\ UNCHANGED tx
     ELSE IF uid \notin DOMAIN profiles THEN
       /\ res' = now(Failure(uid, "profile_not_found"))
       /\ rivals' = alone
       /\ UNCHANGED tx
     ELSE IF SameUsername(next, profiles[uid].username) THEN
       /\ res' = now([kind |-> "ok", uid |-> uid, old |-> profiles[uid].username,
                      new |-> next, changed |-> FALSE])
       /\ rivals' = alone
       /\ UNCHANGED tx
     ELSE
       /\ tx' = [tx EXCEPT ![s] = [pc |-> "chk_profiles", uid |-> uid,
                                   next |-> next, prev |-> profiles[uid].username]]
       /\ res' = NoResults
       /\ rivals' = [x \in Sessions |->
                       IF x = s THEN mine
                       ELSE IF x \in mine THEN rivals[x] \cup {s}
                       ELSE rivals[x] \ {s}]
  /\ UNCHANGED <<db, inserting>>

\* Line 163: if exists (select 1 from profiles where username = next)
RenameCheckProfiles(s) ==
  /\ tx[s].pc = "chk_profiles"
  /\ IF UsernameHeld(profiles, tx[s].next)
     THEN Raise(s, "username_taken")
     ELSE tx' = [tx EXCEPT ![s].pc = "chk_aliases"] /\ res' = NoResults
  /\ UNCHANGED <<db, rivals, inserting>>

\* Line 166: if exists (select 1 from username_aliases where old_username = next)
RenameCheckAliases(s) ==
  /\ tx[s].pc = "chk_aliases"
  /\ IF AliasHeld(aliases, tx[s].next)
     THEN Raise(s, "username_taken")
     ELSE tx' = [tx EXCEPT ![s].pc = "upd_profile"] /\ res' = NoResults
  /\ UNCHANGED <<db, rivals, inserting>>

\* The update of profiles committed on its own, before the alias statements.
RenameUpdateProfile_Autocommit(s) ==
  /\ tx[s].pc = "upd_profile"
  /\ ~(\E t \in Sessions \ {s} : HoldsProfileLock(t, tx[s].uid))
  /\ ~UsernamePending(tx[s].next, s)
  /\ IF /\ tx[s].uid \in DOMAIN profiles
        /\ \E v \in DOMAIN profiles \ {tx[s].uid} : profiles[v].username = tx[s].next
     THEN Raise(s, "unique_violation") /\ UNCHANGED profiles
     ELSE /\ tx' = [tx EXCEPT ![s].pc = "finish"]
          /\ res' = NoResults
          /\ profiles' = IF tx[s].uid \in DOMAIN profiles
                         THEN [profiles EXCEPT ![tx[s].uid].username = tx[s].next]
                         ELSE profiles
  /\ UNCHANGED <<aliases, follows, user_books, next_book_id, gone, rivals, inserting>>

\* Lines 170-172: update profiles set username = next where id = uid.  The
\* statement waits for the row lock and for open writers of the same index
\* entry; a committed row of another user with that username is a unique
\* violation, which aborts the transaction.
RenameUpdateProfile(s) ==
  /\ tx[s].pc = "upd_profile"
  /\ ~(\E t \in Sessions \ {s} : HoldsProfileLock(t, tx[s].uid))
  /\ ~UsernamePending(tx[s].next, s)
  /\ IF /\ tx[s].uid \in DOMAIN profiles
        /\ \E v \in DOMAIN profiles \ {tx[s].uid} : profiles[v].username = tx[s].next
     THEN Raise(s, "unique_violation")
     ELSE tx' = [tx EXCEPT ![s].pc = "finish"] /\ res' = NoResults
  /\ UNCHANGED <<db, rivals, inserting>>

\* Lines 174-184 and the commit: repoint the aliases, upsert the alias of the
\* previous name, return.  With the profiles row gone (account deleted since
\* prev was read) the insert violates the foreign key on user_id.
RenameFinish(s) ==
  /\ tx[s].pc = "finish"
  /\ IF tx[s].uid \notin DOMAIN profiles THEN
       /\ Raise(s, "foreign_key_violation")
       /\ UNCHANGED <<profiles, aliases>>
     ELSE
       /\ profiles' = [profiles EXCEPT ![tx[s].uid].username = tx[s].next]
       /\ aliases' = UpsertAlias(RepointAliases(aliases, tx[s].uid, tx[s].next),
                                 tx[s].prev, tx[s].next, tx[s].uid)
       /\ Return(s, [kind |-> "ok", uid |-> tx[s].uid, old |-> tx[s].prev,
                     new |-> tx[s].next, changed |-> TRUE])
  /\ UNCHANGED <<follows, user_books, next_book_id, gone, rivals, inserting>>

\* The availability test that forgets the names kept as aliases.
is_username_available_NoAliases(P, A, input_username) ==
  /\ is_valid_username(normalize_username(input_username))
  /\ ~is_reserved_username(normalize_username(input_username))
  /\ ~UsernameHeld(P, normalize_username(input_username))

\* is_username_available(input_username), over tables P, A
is_username_available(P, A, input_username) ==
  /\ is_valid_username(normalize_username(input_username))
  /\ ~is_reserved_username(normalize_username(input_username))
  /\ ~UsernameHeld(P, normalize_username(input_username))
  /\ ~AliasHeld(A, normalize_username(input_username))

CheckAvailability(n) == is_username_available(profiles, aliases, n)

\* A call of the is_username_available RPC by any client, signed in or not: it
\* reads auth.uid() nowhere and writes no table; res holds its answer.
IsUsernameAvailableCall(s, input_username) ==
  /\ tx[s].pc = "idle"
  /\ res' = [x \in Sessions |->
              IF x = s
              THEN [kind |-> IF CheckAvailability(input_username)
                             THEN "available" ELSE "unavailable",
                    uid |-> NULL, old |-> NoText,
                    new |-> normalize_username(input_username), changed |-> FALSE]
              ELSE NoRes]
  /\ UNCHANGED <<db, tx, rivals, inserting>>

\* ------------------------------------------------------------- visibility
\* The edge read the wrong way round: the followee sees the follower.
is_approved_follower_Reversed(F, viewer, owner) ==
  Bool3(\E f \in F : /\ f.follower_id = owner
                     /\ f.followee_id = viewer
                     /\ f.status = "approved")

\* exists (follows where follower_id = viewer and followee_id = owner and approved)
is_approved_follower(F, viewer, owner) ==
  Bool3(\E f \in F : /\ f.follower_id = viewer
                     /\ f.followee_id = owner
                     /\ f.status = "approved")

\* Public books that never open the profile.
has_public_books_Never(B, target) == SqlFalse

\* Any book of the target counted as a public one.
has_public_books_AnyBook(B, target) == Bool3(\E b \in B : b.owner_id = target)

\* exists (user_books where owner_id = target and visibility = 'public')
has_public_books(B, target) ==
  Bool3(\E b \in B : b.owner_id = target /\ b.visibility = "public")

\* Any existing profile taken for a public one.
is_public_profile_AnyProfile(P, target) == Bool3(target \in DOMAIN P)

\* exists (profiles where id = target and visibility = 'public')
is_public_profile(P, target) ==
  Bool3(target \in DOMAIN P /\ P[target].visibility = "public")

\* can_view_profile(target), with auth.uid() = uid, over tables P, F, B
can_view_profile(P, F, B, uid, target) ==
  Or3(Or3(Or3(Eq3(uid, target),
              is_public_profile(P, target)),
          And3(Bool3(uid # NULL), is_approved_follower(F, uid, target))),
      has_public_books(B, target))

\* An 'inherit' book that follows everything that opens the owner's profile,
\* the owner's public books included.
can_view_user_book_InheritProfile(P, F, uid, book) ==
  Or3(Or3(Or3(Eq3(uid, book.owner_id),
              Bool3(book.visibility = "public")),
          And3(Bool3(book.visibility = "followers_only"),
               And3(Bool3(uid # NULL),
                    is_approved_follower(F, uid, book.owner_id)))),
      And3(Bool3(book.visibility = "inherit"),
           can_view_profile(P, F, user_books, uid, book.owner_id)))

\* The owner clause left out: the owner goes through the visibility branches.
can_view_user_book_NoOwner(P, F, uid, book) ==
  Or3(Or3(Bool3(book.visibility = "public"),
          And3(Bool3(book.visibility = "followers_only"),
               And3(Bool3(uid # NULL),
                    is_approved_follower(F, uid, book.owner_id)))),
      And3(Bool3(book.visibility = "inherit"),
           Or3(is_public_profile(P, book.owner_id),
               And3(Bool3(uid # NULL),
                    is_approved_follower(F, uid, book.owner_id)))))

\* can_view_user_book(book), with auth.uid() = uid, over tables P, F
can_view_user_book(P, F, uid, book) ==
  Or3(Or3(Or3(Eq3(uid, book.owner_id),
              Bool3(book.visibility = "public")),
          And3(Bool3(book.visibility = "followers_only"),
               And3(Bool3(uid # NULL),
                    is_approved_follower(F, uid, book.owner_id)))),
      And3(Bool3(book.visibility = "inherit"),
           Or3(is_public_profile(P, book.owner_id),
               And3(Bool3(uid # NULL),
                    is_approved_follower(F, uid, book.owner_id)))))

\* A row-level-security predicate lets a row through when it is true (not NULL).
CanViewProfile(viewer, target) ==
  can_view_profile(profiles, follows, user_books, viewer, target) = SqlTrue

CanViewCatalogItem(viewer, item) ==
  can_view_user_book(profiles, follows, viewer, item) = SqlTrue

\* username.trim().toLowerCase() of the page handlers.
JsWhitespace == {" ", "\t", "\n"}

RECURSIVE JsTrimStart(_)
JsTrimStart(s) ==
  IF s # <<>> /\ Head(s) \in JsWhitespace THEN JsTrimStart(Tail(s)) ELSE s

RECURSIVE JsTrimEnd(_)
JsTrimEnd(s) ==
  IF s # <<>> /\ s[Len(s)] \in JsWhitespace
  THEN JsTrimEnd(SubSeq(s, 1, Len(s) - 1)) ELSE s

JsNormalize(username) == Lower(JsTrimEnd(JsTrimStart(username)))

\* settings/page.tsx: normalizeUsername and isValidUsername, the check the
\* settings form makes before it calls change_username.
normalizeUsername(input) == JsNormalize(input)

isValidUsername(input) ==
  LET s == normalizeUsername(input) IN
  /\ ~(Len(s) < 3 \/ Len(s) > 24)
  /\ \A i \in 1..Len(s) : s[i] \in UsernameChars
  /\ ~(s[1] = "_" \/ s[Len(s)] = "_")

Redirect(to) == [kind |-> "redirect", to |-> to, id |-> NULL]
ProfileFound(id) == [kind |-> "profile", to |-> NoText, id |-> id]
NotFound == [kind |-> "not_found", to |-> NoText, id |-> NULL]

\* PublicBookPage, lines 36-88, as the anonymous server client over tables
\* P, F, B, A: redirect to the normalized name; else the alias row's
\* current_username when it differs; else the profiles row that profiles_select
\* lets the anonymous client see; else not found.
ResolveRedirect(P, F, B, A, username) ==
  LET usernameNorm == JsNormalize(username)
      rows == {a \in A : a.old_username = usernameNorm}
      seen == {u \in DOMAIN P :
                 /\ P[u].username = usernameNorm
                 /\ can_view_profile(P, F, B, NULL, u) = SqlTrue}
  IN
  IF usernameNorm # NoText /\ usernameNorm # username THEN Redirect(usernameNorm)
  ELSE IF \E a \in rows : a.current_username # usernameNorm
       THEN Redirect((CHOOSE a \in rows : TRUE).current_username)
  ELSE IF seen # {} THEN ProfileFound(CHOOSE u \in seen : TRUE)
  ELSE NotFound

\* PublicProfilePage, lines 12-44, as the anonymous server client over tables
\* P, F, B: the profiles row whose username is the path segment as given, when
\* profiles_select lets the anonymous client see it; else not found.
PublicProfilePage(P, F, B, A, username) ==
  LET seen == {u \in DOMAIN P :
                 /\ P[u].username = username
                 /\ can_view_profile(P, F, B, NULL, u) = SqlTrue}
  IN
  IF seen # {} THEN ProfileFound(CHOOSE u \in seen : TRUE) ELSE NotFound

\* updateProfileVisibility / saveProfile: update profiles set visibility = v
\* where id = target, under profiles_update_self (auth.uid() = id).  A row
\* that the policy hides is not updated.
UpdateProfileVisibility(caller, target, v) ==
  /\ target \in DOMAIN profiles
  /\ ~ProfileLocked(target)
  /\ profiles' = IF caller = target
                 THEN [profiles EXCEPT ![target].visibility = v]
                 ELSE profiles
  /\ res' = NoResults
  /\ UNCHANGED <<aliases, follows, user_books, next_book_id, gone, tx, rivals, inserting>>

\* update profiles set username = username where id = target, sent to the table
\* by a signed-in client: profiles_update_self (auth.uid() = id) lets the owner
\* write every column of the own row, and nothing but the unique index looks at
\* the value.  A row the policy hides is not updated; a username another row
\* holds is a unique violation and writes nothing.
UpdateProfileUsername(caller, target, username) ==
  /\ target \in DOMAIN profiles
  /\ ~ProfileLocked(target)
  /\ ~UsernamePending(username, NULL)
  /\ \A v \in DOMAIN profiles \ {target} : profiles[v].username # username
  /\ profiles' = IF Eq3(caller, target) = SqlTrue
                 THEN [profiles EXCEPT ![target].username = username]
                 ELSE profiles
  /\ res' = NoResults
  /\ UNCHANGED <<aliases, follows, user_books, next_book_id, gone, tx, rivals, inserting>>

\* addBook: insert into user_books (owner_id, edition_id); visibility defaults
\* to 'inherit'; user_books_insert_owner checks auth.uid() = owner_id.
InsertBook(caller, owner) ==
  /\ next_book_id <= MaxBooks
  /\ caller = owner
  /\ owner \in DOMAIN profiles
  /\ user_books' = user_books \cup
       {[id |-> next_book_id, owner_id |-> owner, visibility |-> "inherit"]}
  /\ next_book_id' = next_book_id + 1
  /\ res' = NoResults
  /\ UNCHANGED <<profiles, aliases, follows, gone, tx, rivals, inserting>>

\* updateUserBookVisibility: update user_books set visibility = v where id = id,
\* under user_books_update_owner (auth.uid() = owner_id).
UpdateBookVisibility(caller, id, v) ==
  /\ \E b \in user_books : b.id = id
  /\ user_books' = {IF b.id = id /\ b.owner_id = caller
                    THEN [b EXCEPT !.visibility = v] ELSE b : b \in user_books}
  /\ res' = NoResults
  /\ UNCHANGED <<profiles, aliases, follows, next_book_id, gone, tx, rivals, inserting>>

\* deleteBook: delete from user_books where id = id, under user_books_delete_owner.
DeleteBook(caller, id) ==
  /\ \E b \in user_books : b.id = id
  /\ user_books' = {b \in user_books : ~(b.id = id /\ b.owner_id = caller)}
  /\ res' = NoResults
  /\ UNCHANGED <<profiles, aliases, follows, next_book_id, gone, tx, rivals, inserting>>

\* ------------------------------------------------------------------ follows
EdgeOf(follower, followee) ==
  {f \in follows : f.follower_id = follower /\ f.followee_id = followee}

\* The insert without the primary key on (follower_id, followee_id).
FollowInsertOutcome_NoKey(P, F, caller, follower, followee, status) ==
  IF Eq3(caller, follower) # SqlTrue THEN "rls_violation"
  ELSE IF status \notin FollowStatuses \/ follower = followee THEN "check_violation"
  ELSE IF follower \notin DOMAIN P \/ followee \notin DOMAIN P
       THEN "foreign_key_violation"
  ELSE "ok"

\* What insert into follows (follower_id, followee_id, status) answers over
\* tables P, F: the policy's WITH CHECK is evaluated first, then the check
\* constraints, then the primary key, then the foreign keys.
FollowInsertOutcome(P, F, caller, follower, followee, status) ==
  IF Eq3(caller, follower) # SqlTrue THEN "rls_violation"
  ELSE IF status \notin FollowStatuses \/ follower = followee THEN "check_violation"
  ELSE IF \E f \in F : f.follower_id = follower /\ f.followee_id = followee
       THEN "unique_violation"
  ELSE IF follower \notin DOMAIN P \/ followee \notin DOMAIN P
       THEN "foreign_key_violation"
  ELSE "ok"

\* insert into follows (follower_id, followee_id, status): the primary key, the
\* check follower_id <> followee_id, the foreign keys and follows_insert_self
\* (auth.uid() = follower_id) decide; the policy does not look at status.
FollowInsert(caller, follower, followee, status) ==
  /\ FollowInsertOutcome(profiles, follows, caller, follower, followee, status) = "ok"
  /\ follows' = follows \cup
       {[follower_id |-> follower, followee_id |-> followee, status |-> status]}
  /\ res' = NoResults
  /\ UNCHANGED <<profiles, aliases, user_books, next_book_id, gone, tx, rivals, inserting>>

\* The table F after the update of the pair's status by caller: the rows the
\* policy lets the caller see are written, the others are left.
FollowUpdated(F, caller, follower, followee, status) ==
  {IF /\ f.follower_id = follower
      /\ f.followee_id = followee
      /\ Eq3(caller, f.followee_id) = SqlTrue
   THEN [f EXCEPT !.status = status] ELSE f : f \in F}

\* update follows set status = status where the pair matches, under
\* follows_update_followee (auth.uid() = followee_id).
FollowUpdate(caller, follower, followee, status) ==
  /\ EdgeOf(follower, followee) # {}
  /\ follows' = FollowUpdated(follows, caller, follower, followee, status)
  /\ res' = NoResults
  /\ UNCHANGED <<profiles, aliases, user_books, next_book_id, gone, tx, rivals, inserting>>

\* The table F after the delete of the pair by caller.
FollowDeleted(F, caller, follower, followee) ==
  {f \in F :
     ~(/\ f.follower_id = follower
       /\ f.followee_id = followee
       /\ Or3(Eq3(caller, f.follower_id), Eq3(caller, f.followee_id)) = SqlTrue)}

\* The delete that does not look at who calls.
FollowDelete_AnyCaller(caller, follower, followee) ==
  /\ EdgeOf(follower, followee) # {}
  /\ follows' = follows \ EdgeOf(follower, followee)
  /\ res' = NoResults
  /\ UNCHANGED <<profiles, aliases, user_books, next_book_id, gone, tx, rivals, inserting>>

\* delete from follows where the pair matches, under follows_delete_participants
\* (auth.uid() = follower_id or auth.uid() = followee_id).
FollowDelete(caller, follower, followee) ==
  /\ EdgeOf(follower, followee) # {}
  /\ follows' = FollowDeleted(follows, caller, follower, followee)
  /\ res' = NoResults
  /\ UNCHANGED <<profiles, aliases, user_books, next_book_id, gone, tx, rivals, inserting>>

\* ------------------------------------------------- follows, overlapping calls
\* Another session's insert of the pair is not committed yet: its entry in the
\* primary-key index makes a writer of the same key wait for its end.
FollowKeyPending(self, follower, followee) ==
  \E t \in Sessions \ {self} :
    /\ inserting[t].pc = "inserted"
    /\ inserting[t].follower_id = follower
    /\ inserting[t].followee_id = followee

\* insert into follows, the statement: a request the policy, the constraints
\* and the committed rows let through puts its row in, not committed yet; while
\* another open insert holds the same key it waits.  (A request they refuse is
\* answered at once, with FollowInsertOutcome, and changes nothing.)
FollowInsertBegin(s, caller, follower, followee, status) ==
  /\ inserting[s].pc = "idle"
  /\ FollowInsertOutcome(profiles, follows, caller, follower, followee, status) = "ok"
  /\ inserting' = [inserting EXCEPT ![s] =
       [pc |-> IF FollowKeyPending(s, follower, followee) THEN "waiting" ELSE "inserted",
        follower_id |-> follower, followee_id |-> followee, status |-> status]]
  /\ res' = NoResults
  /\ UNCHANGED <<db, tx, rivals>>

\* The holder of the key has ended: the waiting insert looks at the key again.
\* A committed row is a unique violation, which ends the request.
FollowInsertResume(s) ==
  /\ inserting[s].pc = "waiting"
  /\ ~FollowKeyPending(s, inserting[s].follower_id, inserting[s].followee_id)
  /\ inserting' = [inserting EXCEPT ![s] =
       IF FollowInsertOutcome(profiles, follows, inserting[s].follower_id,
                              inserting[s].follower_id, inserting[s].followee_id,
                              inserting[s].status) = "ok"
       THEN [@ EXCEPT !.pc = "inserted"]
       ELSE NoInsert]
  /\ res' = NoResults
  /\ UNCHANGED <<db, tx, rivals>>

\* The request's transaction commits: the row is in the table.
FollowInsertCommit(s) ==
  /\ inserting[s].pc = "inserted"
  /\ follows' = follows \cup
       {[follower_id |-> inserting[s].follower_id,
         followee_id |-> inserting[s].followee_id,
         status |-> inserting[s].status]}
  /\ inserting' = [inserting EXCEPT ![s] = NoInsert]
  /\ res' = NoResults
  /\ UNCHANGED <<profiles, aliases, user_books, next_book_id, gone, tx, rivals>>

\* The table F after update follows set follower_id = new_follower where the
\* pair matches, by caller: follows_update_followee looks at followee_id only,
\* before and after, so the followee may write the other key column; the check
\* follower_id <> followee_id, the primary key and the foreign key refuse the
\* statement, which then writes nothing.
FollowerRewritten(P, F, caller, follower, followee, new_follower) ==
  LET rows == {f \in F : /\ f.follower_id = follower
                         /\ f.followee_id = followee
                         /\ Eq3(caller, f.followee_id) = SqlTrue}
  IN IF \/ rows = {}
        \/ new_follower = followee
        \/ \E f \in F \ rows : f.follower_id = new_follower /\ f.followee_id = followee
        \/ new_follower \notin DOMAIN P
     THEN F
     ELSE (F \ rows) \cup {[f EXCEPT !.follower_id = new_follower] : f \in rows}

FollowUpdateFollower(caller, follower, followee, new_follower) ==
  /\ EdgeOf(follower, followee) # {}
  /\ ~FollowKeyPending(NULL, new_follower, followee)
  /\ follows' = FollowerRewritten(profiles, follows, caller, follower, followee, new_follower)
  /\ res' = NoResults
  /\ UNCHANGED <<profiles, aliases, user_books, next_book_id, gone, tx, rivals, inserting>>

\* ------------------------------------------------------------ specifications
\* The username lifecycle with two sessions whose change_username statements
\* interleave; accounts start with their generated username.
Next ==
  \/ \E u \in Users : CreateAccount(u, NoText)
  \/ \E u \in Users : DeleteAccount(u)
  \/ \E s \in Sessions, u \in Users, raw \in {Ann, Bob, AnnTyped} :
       RenameBegin(s, u, raw)
  \/ \E s \in Sessions : RenameCheckProfiles(s)
  \/ \E s \in Sessions : RenameCheckAliases(s)
  \/ \E s \in Sessions : RenameUpdateProfile(s)
  \/ \E s \in Sessions : RenameFinish(s)

Spec == Init /\ [][Next]_vars

\* The username lifecycle one call at a time, with every kind of input: sign-up
\* with a caller-supplied username, anonymous callers, names that fail the
\* checks, and profile visibility and follow edges beside it.
NextSeq ==
  \/ \E u \in Users, m \in MetaNames : CreateAccount(u, m)
  \/ \E u \in Users : DeleteAccount(u)
  \/ \E u \in Users \cup {NULL}, raw \in RawNames : RenameBegin("s1", u, raw)
  \/ RenameCheckProfiles("s1")
  \/ RenameCheckAliases("s1")
  \/ RenameUpdateProfile("s1")
  \/ RenameFinish("s1")
  \/ \E raw \in RawNames : IsUsernameAvailableCall("s1", raw)
  \/ \E u \in Users, v \in ProfileVisibilities : UpdateProfileVisibility(u, u, v)
  \/ \E a \in Users, b \in Users : FollowInsert(a, a, b, "pending")
  \/ \E a \in Users, b \in Users : FollowDelete(a, a, b)

SpecSeq == Init /\ [][NextSeq]_vars

\* The visibility rules: accounts, profile and book visibility, follows.
NextVis ==
  \/ \E u \in Users : CreateAccount(u, NoText)
  \/ \E u \in Users : DeleteAccount(u)
  \/ \E c \in Users, t \in Users, v \in ProfileVisibilities :
       UpdateProfileVisibility(c, t, v)
  \/ \E c \in Users, o \in Users : InsertBook(c, o)
  \/ \E c \in Users, i \in BookIds, v \in BookVisibilities :
       UpdateBookVisibility(c, i, v)
  \/ \E c \in Users, i \in BookIds : DeleteBook(c, i)
  \/ \E c \in Users, a \in Users, b \in Users, st \in FollowStatuses :
       FollowInsert(c, a, b, st)
  \/ \E c \in Users, a \in Users, b \in Users, st \in FollowStatuses :
       FollowUpdate(c, a, b, st)
  \/ \E c \in Users, a \in Users, b \in Users : FollowDelete(c, a, b)

SpecVis == Init /\ [][NextVis]_vars

\* The username lifecycle one call at a time, with the clients' direct writes of
\* profiles.username beside change_username.
NextDirect ==
  \/ \E u \in Users : CreateAccount(u, NoText)
  \/ \E u \in Users : DeleteAccount(u)
  \/ \E u \in Users, raw \in RawNames : RenameBegin("s1", u, raw)
  \/ RenameCheckProfiles("s1")
  \/ RenameCheckAliases("s1")
  \/ RenameUpdateProfile("s1")
  \/ RenameFinish("s1")
  \/ \E c \in Users, u \in Users, n \in DirectNames : UpdateProfileUsername(c, u, n)

SpecDirect == Init /\ [][NextDirect]_vars

\* The follow graph among three users, every one of them calling on every edge.
NextFollow ==
  \/ \E u \in Members : CreateAccount(u, NoText)
  \/ \E u \in Members : DeleteAccount(u)
  \/ \E c \in Members, a \in Members, b \in Members, st \in FollowStatuses :
       FollowInsert(c, a, b, st)
  \/ \E c \in Members, a \in Members, b \in Members, st \in FollowStatuses :
       FollowUpdate(c, a, b, st)
  \/ \E c \in Members, a \in Members, b \in Members : FollowDelete(c, a, b)

SpecFollow == Init /\ [][NextFollow]_vars

\* The follow graph with two sessions whose inserts overlap, beside the
\* followee's updates and the participants' deletes.
NextFollowRace ==
  \/ \E u \in Members : CreateAccount(u, NoText)
  \/ \E u \in Members : DeleteAccount(u)
  \/ \E s \in Sessions, c \in Users, a \in Users, b \in Users,
        st \in {"pending", "approved"} : FollowInsertBegin(s, c, a, b, st)
  \/ \E s \in Sessions : FollowInsertResume(s)
  \/ \E s \in Sessions : FollowInsertCommit(s)
  \/ \E c \in Members, a \in Members, b \in Members, n \in Members :
       FollowUpdateFollower(c, a, b, n)
  \/ \E c \in Members, a \in Members, b \in Members : FollowDelete(c, a, b)

SpecFollowRace == Init /\ [][NextFollowRace]_vars

\* ------------------------------------------------------------------- claims
Holders(P, n) == {u \in DOMAIN P : P[u].username = n}

OkChanged(r) == r.kind = "ok" /\ r.changed

\* C1: two different users run Rename concurrently with the same normalized new
\* name: exactly one call succeeds with changed = true, the other fails with
\* Taken (username_taken), and afterwards exactly one Profile holds that name.
\* Stated of the state in which both calls have returned, for two users whose
\* accounts still exist.
C1_ConcurrentRenameExclusive ==
  \A s \in Sessions, t \in Sessions :
    (/\ s # t
     /\ t \in rivals[s]
     /\ res[s].kind # "none"
     /\ res[t].kind # "none"
     /\ res[s].uid \in DOMAIN profiles
     /\ res[t].uid \in DOMAIN profiles)
      => \E w \in {s, t} :
           /\ OkChanged(res[w])
           /\ \A l \in {s, t} \ {w} : res[l].kind = "username_taken"
           /\ Cardinality(Holders(profiles, res[w].new)) = 1

\* Names that are some Profile's username or some alias row's old_username.
KnownNames ==
  {profiles[u].username : u \in DOMAIN profiles} \cup
  {a.old_username : a \in aliases}

\* The call of session s returns in this step, having got past the no-op test.
Returns(s) == tx[s].pc # "idle" /\ tx'[s].pc = "idle"

\* Name n is on record for a user other than u.
UsedByOther(n, u) ==
  \/ \E v \in DOMAIN profiles \ {u} : profiles[v].username = n
  \/ \E a \in aliases : a.old_username = n /\ a.user_id # u

\* C2: permanent exclusion: once a name has been some Profile's username, in
\* every later state CheckAvailability(n) is false and Rename(v, n) by every
\* other user v fails with Taken.  Stated as its step: a name on record (a
\* username when it is committed, an alias after its holder renamed away) is
\* unavailable after every step, and a call for a name on record for another
\* user returns username_taken.
C2_PermanentExclusion ==
  [][/\ \A n \in KnownNames : ~is_username_available(profiles', aliases', n)
     /\ \A s \in Sessions :
          (Returns(s) /\ UsedByOther(tx[s].next, tx[s].uid))
            => res'[s].kind = "username_taken"]_vars

\* Name n leads to user u over tables P, A: it is u's current username, or the
\* old_username of an alias row whose current_username is u's current username.
LeadsTo(P, A, u, n) ==
  /\ u \in DOMAIN P
  /\ \/ P[u].username = n
     \/ \E a \in A : a.old_username = n /\ a.current_username = P[u].username

\* C3: after any interleaving of Rename calls, every name ever committed as u's
\* Profile.username is u's current username or the old_username of an alias row
\* whose current_username is u's current username.  Stated as its step: a name
\* leads to u when it is committed as u's username, and no step of an existing
\* account takes a name that leads to u out of that relation.
C3_EveryNameKeepsLeadingToItsUser ==
  [][\A u \in DOMAIN profiles, n \in KnownNames :
       (LeadsTo(profiles, aliases, u, n) /\ u \in DOMAIN profiles')
         => LeadsTo(profiles', aliases', u, n)]_vars

\* The call of session s commits a rename in this step.
Commits(s) == tx[s].pc = "finish" /\ tx'[s].pc = "idle" /\ OkChanged(res'[s])

\* What the public pages answer for a username that is its holder's current one.
Canonical(P, F, B, u) ==
  IF can_view_profile(P, F, B, NULL, u) = SqlTrue THEN ProfileFound(u) ELSE NotFound

\* C4: alias transitivity: after a user's successive renames (A -> B, then
\* B -> C, one call after the other) every earlier name redirects to the last one
\* in a single step, and the last one is canonical (no redirect).  Stated of the
\* step that commits a rename of u to a new name: afterwards the new name is u's
\* username and resolves without a redirect, and every other name that led to u
\* before the step redirects to the new name.
C4_AliasTransitivity ==
  [][\A s \in Sessions :
       Commits(s) =>
         LET u == tx[s].uid
             new == tx[s].next
         IN
         /\ profiles'[u].username = new
         /\ ResolveRedirect(profiles', follows', user_books', aliases', new)
              = Canonical(profiles', follows', user_books', u)
         /\ \A n \in KnownNames \ {new} :
              LeadsTo(profiles, aliases, u, n)
                => ResolveRedirect(profiles', follows', user_books', aliases', n)
                     = Redirect(new)]_vars

\* A user two renames on (A -> B -> C): A and B redirect to C, and C shows the
\* profile.
C4_Witness ==
  \E u \in DOMAIN profiles :
    LET A == generate_default_username(u)
        C == profiles[u].username
    IN
    /\ C \in {Ann, Bob}
    /\ \E B \in {Ann, Bob} \ {C} :
         /\ [old_username |-> A, current_username |-> C, user_id |-> u] \in aliases
         /\ [old_username |-> B, current_username |-> C, user_id |-> u] \in aliases
         /\ ResolveRedirect(profiles, follows, user_books, aliases, A) = Redirect(C)
         /\ ResolveRedirect(profiles, follows, user_books, aliases, B) = Redirect(C)
    /\ ResolveRedirect(profiles, follows, user_books, aliases, C) = ProfileFound(u)

\* C5: Rename(u, n) where Normalize(n) is u's current username returns
\* changed = false and leaves Profile, UsernameAlias and FollowEdge state as it
\* was (so repeating it gives the same result).
C5_RenameToCurrentIsNoop ==
  [][\A s \in Sessions, u \in Users, raw \in RawNames :
       (/\ RenameBegin(s, u, raw)
        /\ u \in DOMAIN profiles
        /\ normalize_username(raw) = profiles[u].username)
         => /\ res'[s].kind = "ok"
            /\ ~res'[s].changed
            /\ UNCHANGED <<profiles, aliases, follows>>]_vars

Viewers == Users \cup {NULL}

HasApprovedEdge(viewer, target) ==
  \E f \in follows : /\ f.follower_id = viewer
                     /\ f.followee_id = target
                     /\ f.status = "approved"

\* The visibility an item has once 'inherit' is resolved against its owner's profile.
EffectiveVisibility(item) ==
  IF item.visibility = "inherit" /\ item.owner_id \in DOMAIN profiles
  THEN profiles[item.owner_id].visibility
  ELSE item.visibility

\* C6: CanViewProfile(viewer, target) is true iff viewer = target, or the target
\* is public, or viewer is not null and an approved edge viewer -> target exists,
\* or the target owns an item whose effective visibility is public; a public
\* profile is viewable by every viewer, the anonymous one included.
C6_CanViewProfileRule ==
  \A viewer \in Viewers, target \in DOMAIN profiles :
    /\ CanViewProfile(viewer, target) <=>
         \/ viewer = target
         \/ profiles[target].visibility = "public"
         \/ (viewer # NULL /\ HasApprovedEdge(viewer, target))
         \/ \E b \in user_books :
              b.owner_id = target /\ EffectiveVisibility(b) = "public"
    /\ profiles[target].visibility = "public" => CanViewProfile(viewer, target)

\* A followers-only profile seen by the anonymous viewer through a public item,
\* next to a profile seen only through an approved edge.
C6_Witness ==
  \E t \in DOMAIN profiles, u \in DOMAIN profiles :
    /\ profiles[t].visibility = "followers_only"
    /\ \E b \in user_books : b.owner_id = t /\ b.visibility = "public"
    /\ CanViewProfile(NULL, t)
    /\ profiles[u].visibility = "followers_only"
    /\ HasApprovedEdge(t, u)
    /\ CanViewProfile(t, u)
    /\ ~CanViewProfile(NULL, u)

\* C7: CanViewCatalogItem(viewer, item) is true iff viewer is the owner, or the
\* item is public, or it is followers_only and viewer is an approved follower of
\* the owner, or it is inherit and the owner's profile flag is public or viewer
\* is an approved follower of the owner.
C7_CanViewCatalogItemRule ==
  \A viewer \in Viewers, item \in user_books :
    CanViewCatalogItem(viewer, item) <=>
      \/ viewer = item.owner_id
      \/ item.visibility = "public"
      \/ /\ item.visibility = "followers_only"
         /\ viewer # NULL
         /\ HasApprovedEdge(viewer, item.owner_id)
      \/ /\ item.visibility = "inherit"
         /\ \/ profiles[item.owner_id].visibility = "public"
            \/ (viewer # NULL /\ HasApprovedEdge(viewer, item.owner_id))

\* An inherit item of a followers-only owner who also has a public item: the
\* approved follower sees it, the anonymous viewer does not.
C7_Witness ==
  \E item \in user_books, other \in user_books, v \in Users :
    /\ item.visibility = "inherit"
    /\ other.owner_id = item.owner_id
    /\ other.visibility = "public"
    /\ profiles[item.owner_id].visibility = "followers_only"
    /\ HasApprovedEdge(v, item.owner_id)
    /\ CanViewCatalogItem(v, item)
    /\ ~CanViewCatalogItem(NULL, item)

\* A visibility value outside the declared enum, as a corrupt row would hold it.
CorruptVisibility == "corrupt"

\* C8: a user can always view their own profile and their own items, whatever
\* the profile and item visibility values are, a value outside the enum included.
C8_OwnerAlwaysPasses ==
  \A u \in DOMAIN profiles :
    \A pv \in ProfileVisibilities \cup {CorruptVisibility} :
      LET P == [profiles EXCEPT ![u].visibility = pv] IN
      /\ can_view_profile(P, follows, user_books, u, u) = SqlTrue
      /\ \A item \in user_books :
           item.owner_id = u =>
             \A bv \in BookVisibilities \cup {CorruptVisibility} :
               can_view_user_book(P, follows, u, [item EXCEPT !.visibility = bv])
                 = SqlTrue

\* An owner whose followers-only item nobody else can see.
C8_Witness ==
  \E item \in user_books :
    /\ item.visibility = "followers_only"
    /\ profiles[item.owner_id].visibility = "followers_only"
    /\ CanViewCatalogItem(item.owner_id, item)
    /\ CanViewProfile(item.owner_id, item.owner_id)
    /\ \A v \in Viewers \ {item.owner_id} :
         ~CanViewCatalogItem(v, item) /\ ~CanViewProfile(v, item.owner_id)

\* The step deletes the approved edge a -> b and changes nothing else.
DeletesApprovedEdge(a, b) ==
  /\ HasApprovedEdge(a, b)
  /\ follows' = follows \ EdgeOf(a, b)
  /\ UNCHANGED <<profiles, user_books>>

\* C9 as stated: with an approved edge a -> b, CanViewProfile(a, b) is true even
\* when b is followers_only; once that edge is deleted, with no other change,
\* CanViewProfile(a, b) is false.
C9_AsStated ==
  [][\A a \in Users, b \in Users :
       (DeletesApprovedEdge(a, b) /\ profiles[b].visibility = "followers_only")
         => /\ CanViewProfile(a, b)
            /\ can_view_profile(profiles', follows', user_books', a, b) # SqlTrue]_vars

\* C9 amended: ... once that edge is deleted, with no other change,
\* CanViewProfile(a, b) is false provided b is followers_only and owns no item
\* whose visibility is public.
C9_EdgeGrantsAndDeletionRevokes ==
  [][\A a \in Users, b \in Users :
       (DeletesApprovedEdge(a, b) /\ profiles[b].visibility = "followers_only")
         => /\ CanViewProfile(a, b)
            /\ (has_public_books(user_books, b) = SqlFalse
                  => can_view_profile(profiles', follows', user_books', a, b) # SqlTrue)]_vars

\* An approved edge into a followers-only profile without public items: the edge
\* alone lets the follower in.
C9_Witness ==
  \E a \in Users, b \in Users :
    /\ HasApprovedEdge(a, b)
    /\ profiles[b].visibility = "followers_only"
    /\ has_public_books(user_books, b) = SqlFalse
    /\ CanViewProfile(a, b)
    /\ ENABLED FollowDelete(a, a, b)

\* The step changes the profile visibility of owner o from public to
\* followers_only and changes nothing else.
OwnerGoesPrivate(o) ==
  /\ o \in DOMAIN profiles
  /\ o \in DOMAIN profiles'
  /\ profiles[o].visibility = "public"
  /\ profiles'[o].visibility = "followers_only"
  /\ UNCHANGED <<user_books, follows>>

\* C10: 'inherit' follows the owner's current profile visibility: an inherit
\* item of a public owner is visible to the anonymous viewer, and once only the
\* owner's profile visibility changes to followers_only the same item is not.
C10_InheritIsLive ==
  [][\A item \in user_books :
       (item.visibility = "inherit" /\ OwnerGoesPrivate(item.owner_id))
         => /\ CanViewCatalogItem(NULL, item)
            /\ can_view_user_book(profiles', follows', NULL, item) # SqlTrue]_vars

\* An inherit item of a public owner, visible to the anonymous viewer, whose
\* owner can switch the profile to followers_only.
C10_Witness ==
  \E item \in user_books :
    /\ item.visibility = "inherit"
    /\ profiles[item.owner_id].visibility = "public"
    /\ CanViewCatalogItem(NULL, item)
    /\ ENABLED UpdateProfileVisibility(item.owner_id, item.owner_id, "followers_only")

\* The item is public: its own visibility is public, or it inherits from a
\* public profile.
ItemIsPublic(item) ==
  \/ item.visibility = "public"
  \/ /\ item.visibility = "inherit"
     /\ item.owner_id \in DOMAIN profiles
     /\ profiles[item.owner_id].visibility = "public"

\* C11 as stated: for the anonymous viewer, CanViewProfile(null, t) is true only
\* if t's visibility is public, and CanViewCatalogItem(null, item) is true only
\* if the item is public.
C11_AsStated ==
  /\ \A t \in DOMAIN profiles :
       CanViewProfile(NULL, t) => profiles[t].visibility = "public"
  /\ \A item \in user_books :
       CanViewCatalogItem(NULL, item) => ItemIsPublic(item)

\* C11 amended: for the anonymous viewer, CanViewProfile(null, t) is true only
\* if t's visibility is public or t owns an item whose visibility is public, and
\* CanViewCatalogItem(null, item) is true only if the item is public.
C11_AnonymousPassesOnlyOnPublic ==
  /\ \A t \in DOMAIN profiles :
       CanViewProfile(NULL, t) =>
         \/ profiles[t].visibility = "public"
         \/ \E b \in user_books : b.owner_id = t /\ b.visibility = "public"
  /\ \A item \in user_books :
       CanViewCatalogItem(NULL, item) => ItemIsPublic(item)

\* The anonymous viewer is kept out of a followers-only profile that has an
\* approved follower and only non-public items, and let in to an inherit item
\* of a public profile.
C11_Witness ==
  \E t \in DOMAIN profiles, o \in DOMAIN profiles :
    /\ profiles[t].visibility = "followers_only"
    /\ \E f \in follows : f.followee_id = t /\ f.status = "approved"
    /\ \E b \in user_books : b.owner_id = t /\ b.visibility = "followers_only"
    /\ ~CanViewProfile(NULL, t)
    /\ \A b \in user_books : b.owner_id = t => ~CanViewCatalogItem(NULL, b)
    /\ profiles[o].visibility = "public"
    /\ \E b \in user_books :
         b.owner_id = o /\ b.visibility = "inherit" /\ CanViewCatalogItem(NULL, b)

\* C12: RequestFollow(follower, followee) fails when follower = followee, fails
\* with Conflict (a unique violation, nothing written) when an edge of any status
\* exists for the ordered pair, and otherwise creates the edge with status
\* pending: a follower never creates an edge that is already approved.
C12_RequestFollowCreatesPending ==
  [][\A a \in Members, b \in Members, st \in FollowStatuses :
       /\ a = b =>
            FollowInsertOutcome(profiles, follows, a, a, b, st) = "check_violation"
       /\ (a # b /\ EdgeOf(a, b) # {}) =>
            FollowInsertOutcome(profiles, follows, a, a, b, st) = "unique_violation"
       /\ FollowInsert(a, a, b, st) =>
            /\ EdgeOf(a, b) = {}
            /\ follows' \ follows =
                 {[follower_id |-> a, followee_id |-> b, status |-> "pending"]}]_vars

\* C13: a follow edge changes status only by RespondFollow performed by its
\* followee, and only from pending to approved or rejected: no action by the
\* follower or a third party changes status, and no transition leaves approved
\* or rejected except deletion.
C13_StatusChangesOnlyFromPendingByFollowee ==
  [][\A a \in Members, b \in Members :
       \A f \in EdgeOf(a, b) :
         \A g \in {e \in follows' : e.follower_id = a /\ e.followee_id = b} :
           f.status # g.status =>
             /\ f.status = "pending"
             /\ g.status \in {"approved", "rejected"}
             /\ FollowUpdate(b, a, b, g.status)]_vars

\* The edge a -> b is written in this step (deleted, or its status changed)
\* while both accounts stay.
EdgeWritten(a, b) ==
  /\ EdgeOf(a, b) # {}
  /\ EdgeOf(a, b) \cap follows' = {}
  /\ {a, b} \subseteq DOMAIN profiles'

\* C14: RemoveEdge(requester, follower, followee) succeeds from any edge status
\* when requester is the follower or the followee, and a requester who is
\* neither participant cannot delete (or change) the edge.
C14_OnlyParticipantsRemove ==
  [][\A a \in Members, b \in Members :
       EdgeOf(a, b) # {} =>
         /\ \A c \in {a, b} :
              FollowDelete(c, a, b) => follows' = follows \ EdgeOf(a, b)
         /\ follows' # follows =>
              /\ \A c \in (Members \cup {NULL}) \ {a, b} :
                   /\ ~FollowDelete(c, a, b)
                   /\ \A st \in FollowStatuses : ~FollowUpdate(c, a, b, st)
              /\ EdgeWritten(a, b) =>
                   \E c \in {a, b} :
                     \/ FollowDelete(c, a, b)
                     \/ \E st \in FollowStatuses : FollowUpdate(c, a, b, st)]_vars

\* Edges of all three statuses, each of which either participant can delete
\* and a third user can call on.
C14_Witness ==
  \A st \in FollowStatuses :
    \E f \in follows, c \in DOMAIN profiles :
      /\ f.status = st
      /\ c \notin {f.follower_id, f.followee_id}
      /\ ENABLED FollowDelete(f.follower_id, f.follower_id, f.followee_id)
      /\ ENABLED FollowDelete(f.followee_id, f.follower_id, f.followee_id)
      /\ ENABLED FollowDelete(c, f.follower_id, f.followee_id)

\* C15: every follow-graph operation is idempotent under retry: the same call
\* issued again right after the first leaves the state as the first call left
\* it, and either no-ops or returns a terminal error.  Stated of the step of the
\* first call: the second RequestFollow is refused on the primary key and writes
\* nothing, the second RespondFollow and the second RemoveEdge write nothing.  (A
\* first call that is refused or writes nothing leaves its retry the same state
\* and so the same answer.)
C15_FollowOperationsIdempotent ==
  [][follows' # follows =>
       \A a \in Members, b \in Members, c \in Members :
         IF EdgeOf(a, b) = {} THEN
           \A st \in FollowStatuses :
             FollowInsert(c, a, b, st) =>
               FollowInsertOutcome(profiles', follows', c, a, b, st) = "unique_violation"
         ELSE
           /\ \A st \in FollowStatuses :
                FollowUpdate(c, a, b, st) =>
                  FollowUpdated(follows', c, a, b, st) = follows'
           /\ FollowDelete(c, a, b) =>
                FollowDeleted(follows', c, a, b) = follows']_vars

\* An edge just approved by its followee, for which the follower's request and
\* the followee's answer can both be issued again.
C15_Witness ==
  \E f \in follows :
    /\ f.status = "approved"
    /\ FollowInsertOutcome(profiles, follows, f.follower_id, f.follower_id,
                           f.followee_id, "pending") = "unique_violation"
    /\ ENABLED FollowUpdate(f.followee_id, f.follower_id, f.followee_id, "approved")
    /\ ENABLED FollowDelete(f.follower_id, f.follower_id, f.followee_id)

\* The format rule: 3 to 24 characters of [a-z0-9_], not starting or ending
\* with '_'.
WellFormed(n) ==
  /\ Len(n) \in 3..24
  /\ \A i \in 1..Len(n) : n[i] \in UsernameChars
  /\ n[1] # "_"
  /\ n[Len(n)] # "_"

\* C16: Rename normalizes its input (trim, lowercase), rejects with
\* InvalidFormat every name that is not well formed and with Reserved every name
\* of the reserved set, so that no name failing either check becomes a
\* Profile.username through Rename; and the client-side check accepts exactly
\* the names the server-side validation accepts.
C16_RenameValidates ==
  [][/\ \A u \in Users, raw \in RawNames :
          RenameBegin("s1", u, raw) =>
            LET n == normalize_username(raw) IN
            /\ ~WellFormed(n) => res'["s1"].kind = "invalid_username"
            /\ (WellFormed(n) /\ n \in ReservedUsernames)
                 => res'["s1"].kind = "reserved_username"
            /\ (WellFormed(n) /\ n \notin ReservedUsernames)
                 => res'["s1"].kind \notin {"invalid_username", "reserved_username"}
            /\ isValidUsername(raw) <=> is_valid_username(n)
     /\ \A s \in Sessions :
          Commits(s) =>
            /\ WellFormed(profiles'[tx[s].uid].username)
            /\ profiles'[tx[s].uid].username \notin ReservedUsernames]_vars

\* C17: CheckAvailability(n) is true iff the normalized name is well formed, is
\* not reserved, is no Profile's username and is no alias row's old_username; the
\* call changes no state and needs no acting user.  Stated of the call, made by
\* a client without identity in every state: its answer is the rule's, over the
\* server's normalization of the input, and the tables are as they were.
C17_CheckAvailabilityRule ==
  [][res'["s1"].kind \in {"available", "unavailable"} =>
       \A raw \in RawNames :
         IsUsernameAvailableCall("s1", raw) =>
           /\ UNCHANGED <<db, tx>>
           /\ (res'["s1"].kind = "available") <=>
                LET n == normalize_username(raw) IN
                /\ WellFormed(n)
                /\ n \notin ReservedUsernames
                /\ Holders(profiles, n) = {}
                /\ \A a \in aliases : a.old_username # n]_vars

\* The call has answered 'unavailable' for a well-formed, unreserved name that
\* only an alias row keeps.
C17_Witness ==
  /\ res["s1"].kind = "unavailable"
  /\ \E a \in aliases : a.old_username = res["s1"].new
  /\ Holders(profiles, res["s1"].new) = {}
  /\ WellFormed(res["s1"].new)
  /\ res["s1"].new \notin ReservedUsernames

\* What ResolveRedirect is to answer for a normalized name n: canonical when a
\* Profile holds it (shown or, for a profile the anonymous reader may not see,
\* not found), else the redirect of its alias row, else not found.
Resolved(n) ==
  IF Holders(profiles, n) # {}
  THEN {Canonical(profiles, follows, user_books, u) : u \in Holders(profiles, n)}
  ELSE IF \E a \in aliases : a.old_username = n
  THEN {Redirect(a.current_username) : a \in {x \in aliases : x.old_username = n}}
  ELSE {NotFound}

\* For a name as requested: the answer for its normalized form, reached at once
\* or through a redirect to the normalized form.
ResolvedAsRequested(name) ==
  Resolved(JsNormalize(name)) \cup
  (IF JsNormalize(name) # name THEN {Redirect(JsNormalize(name))} ELSE {})

\* C18: ResolveRedirect(name) normalizes the name and then answers canonical (no
\* redirect) if a Profile holds it, the Profile lookup taking precedence over any
\* alias row; else a permanent redirect to the alias row's current_username; else
\* NotFound; on the book page and on the profile page.
C18_ResolveRedirectOnEveryPath ==
  \A name \in RawNames \cup KnownNames :
    /\ ResolveRedirect(profiles, follows, user_books, aliases, name)
         \in ResolvedAsRequested(name)
    /\ PublicProfilePage(profiles, follows, user_books, aliases, name)
         \in ResolvedAsRequested(name)

\* The only record of name n is an alias row owned by u.
OnlyOwnAlias(n, u) ==
  /\ Holders(profiles, n) = {}
  /\ \E a \in aliases : a.old_username = n
  /\ \A a \in aliases : a.old_username = n => a.user_id = u

\* C19: a user may re-claim a username they held before: when the only record of
\* name n is an alias row owned by u, Rename(u, n) succeeds (the alias row of the
\* name left behind is written, over an existing row if there is one); a name
\* on record for a different account is refused.
C19_OwnerReclaimsOldName ==
  [][\A s \in Sessions :
       Returns(s) =>
         LET u == tx[s].uid
             n == tx[s].next
         IN
         /\ OnlyOwnAlias(n, u) =>
              /\ OkChanged(res'[s])
              /\ profiles'[u].username = n
              /\ [old_username |-> tx[s].prev, current_username |-> n, user_id |-> u]
                   \in aliases'
         /\ UsedByOther(n, u) => ~OkChanged(res'[s])]_vars

\* C20: in every reachable state every alias row owned by user u has
\* current_username equal to u's current Profile.username: the rows of one user
\* share one target, and the target is held by an existing Profile.
C20_AliasesPointAtCurrentUsername ==
  \A a \in aliases :
    /\ a.user_id \in DOMAIN profiles
    /\ a.current_username = profiles[a.user_id].username


\* C21: in every reachable state no alias row's old_username is the username
\* of a Profile, after any sequence of account creations (with a username the
\* caller supplies or a generated one), renames and profile updates.
C21_NoAliasNameIsActive ==
  \A a \in aliases : ~UsernameHeld(profiles, a.old_username)


\* The three writes of the call of session s (lines 170-182) are in the rows
\* other calls read after the step: the username, the alias of the name the
\* call read as previous, and every alias row of the user pointing at the
\* new name.
WritesVisible(s, P, A) ==
  /\ P[tx[s].uid].username = tx[s].next
  /\ [old_username |-> tx[s].prev, current_username |-> tx[s].next,
      user_id |-> tx[s].uid] \in A
  /\ \A a \in A : a.user_id = tx[s].uid => a.current_username = tx[s].next

RenameFailures ==
  {"not_authenticated", "invalid_username", "reserved_username",
   "profile_not_found", "username_taken"}

\* The first of the checks that stops a call by uid for the raw name, in the
\* order the claim gives them; "availability" when the call gets to the
\* re-check of the name.
FirstStop(uid, raw) ==
  IF uid = NULL THEN "not_authenticated"
  ELSE IF ~is_valid_username(normalize_username(raw)) THEN "invalid_username"
  ELSE IF is_reserved_username(normalize_username(raw)) THEN "reserved_username"
  ELSE IF uid \notin DOMAIN profiles THEN "profile_not_found"
  ELSE IF profiles[uid].username = normalize_username(raw) THEN "ok"
  ELSE "availability"

\* C23: a Rename that fails with NotAuthenticated, InvalidFormat, Reserved,
\* ProfileNotFound or Taken leaves the Profile and UsernameAlias rows as they
\* were and ends the call (nothing runs it again), and the checks come in the
\* order: acting user, format, reserved, missing profile, no-op, availability.
C23_FailuresInOrderAndWithoutEffect ==
  [][(tx' # tx \/ res'["s1"].kind \in RenameFailures \cup {"ok"}) =>
       /\ \A u \in Users \cup {NULL}, raw \in RawNames :
            RenameBegin("s1", u, raw) =>
              IF FirstStop(u, raw) = "availability"
              THEN tx'["s1"].pc = "chk_profiles" /\ res'["s1"].kind = "none"
              ELSE /\ res'["s1"].kind = FirstStop(u, raw)
                   /\ ~res'["s1"].changed
                   /\ tx'["s1"].pc = "idle"
       /\ res'["s1"].kind = "username_taken" =>
            /\ tx["s1"].pc \in {"chk_profiles", "chk_aliases"}
            /\ UsernameHeld(profiles, tx["s1"].next) \/ AliasHeld(aliases, tx["s1"].next)
       /\ res'["s1"].kind \in RenameFailures =>
            /\ profiles' = profiles
            /\ aliases' = aliases
            /\ tx'["s1"] = IdleTx]_vars

\* A reserved name asked for by a user without a profile is refused as
\* reserved, beside rows of another user that stay.
C23_Witness ==
  /\ res["s1"].kind = "reserved_username"
  /\ res["s1"].uid \in Users \ DOMAIN profiles
  /\ aliases # {}


\* C24: item visibility does not depend on the 'has public books' clause of
\* the profile rule: an inherit item whose owner's profile is followers_only is
\* denied to every viewer who is neither the owner nor an approved follower,
\* also when the owner has a public item and the owner's profile is therefore
\* viewable.
C24_InheritIgnoresPublicBooks ==
  \A viewer \in Viewers, item \in user_books :
    /\ item.visibility = "inherit"
    /\ profiles[item.owner_id].visibility = "followers_only"
    /\ viewer # item.owner_id
    /\ ~HasApprovedEdge(viewer, item.owner_id)
    => ~CanViewCatalogItem(viewer, item)

\* A signed-in stranger and the anonymous viewer see the followers-only owner's
\* profile through a public item, and not the inherit item beside it.
C24_Witness ==
  \E item \in user_books, other \in user_books, v \in Users :
    /\ item.visibility = "inherit"
    /\ other.owner_id = item.owner_id
    /\ other.visibility = "public"
    /\ profiles[item.owner_id].visibility = "followers_only"
    /\ v \in DOMAIN profiles \ {item.owner_id}
    /\ ~HasApprovedEdge(v, item.owner_id)
    /\ CanViewProfile(v, item.owner_id)
    /\ CanViewProfile(NULL, item.owner_id)
    /\ ~CanViewCatalogItem(v, item)
    /\ ~CanViewCatalogItem(NULL, item)


\* C25: a visibility value outside the enum is resolved as the most
\* restrictive recognized one: a profile holding it is viewable exactly as a
\* followers_only profile, and an item holding it exactly as an inherit item
\* whose owner's profile is not public (the owner and the approved followers
\* pass, everyone else is denied).
C25_UnrecognizedIsMostRestrictive ==
  /\ \A viewer \in Viewers, target \in DOMAIN profiles :
       (can_view_profile([profiles EXCEPT ![target].visibility = CorruptVisibility],
                         follows, user_books, viewer, target) = SqlTrue)
       <=>
       (can_view_profile([profiles EXCEPT ![target].visibility = "followers_only"],
                         follows, user_books, viewer, target) = SqlTrue)
  /\ \A viewer \in Viewers, item \in user_books :
       LET P == [profiles EXCEPT ![item.owner_id].visibility = "followers_only"] IN
       /\ (can_view_user_book(P, follows, viewer,
                              [item EXCEPT !.visibility = CorruptVisibility]) = SqlTrue)
          <=>
          (can_view_user_book(P, follows, viewer,
                              [item EXCEPT !.visibility = "inherit"]) = SqlTrue)
       /\ (can_view_user_book(P, follows, viewer,
                              [item EXCEPT !.visibility = CorruptVisibility]) = SqlTrue)
          <=>
          (viewer = item.owner_id \/ (viewer # NULL /\ HasApprovedEdge(viewer, item.owner_id)))


\* The insert of session s and the insert of session t are for the same pair.
SamePair(s, t) ==
  /\ inserting[s].follower_id = inserting[t].follower_id
  /\ inserting[s].followee_id = inserting[t].followee_id

\* C26: in every reachable state, also after overlapping RequestFollow calls
\* for the same ordered pair and after the followee's updates, there is at
\* most one follow edge per ordered (follower, followee) pair and no edge from
\* a user to themselves; of two overlapping RequestFollow calls for one pair
\* exactly one creates the edge and the other fails with Conflict.  Stated of
\* every step: after it the table has no self-edge and no second row of a
\* pair, and no two open inserts hold one pair; the commit of an insert makes
\* its row the pair's only edge and leaves every insert waiting for that pair
\* with a unique violation as its answer; and an insert that ends waiting
\* without its row is refused and writes nothing.
C26_OneEdgePerPair ==
  [][(follows' # follows \/ inserting' # inserting) =>
       /\ \A f \in follows' : f.follower_id # f.followee_id
       /\ \A f \in follows', g \in follows' :
            (f.follower_id = g.follower_id /\ f.followee_id = g.followee_id) => f = g
       /\ \A s \in Sessions : \A t \in Sessions \ {s} :
            /\ inserting'[s].pc = "inserted"
                 => /\ ~(inserting'[t].pc = "inserted" /\ SamePair(s, t)')
                    /\ ~\E f \in follows' : /\ f.follower_id = inserting'[s].follower_id
                                            /\ f.followee_id = inserting'[s].followee_id
            /\ (inserting[s].pc = "inserted" /\ inserting'[s].pc = "idle")
                 => /\ {f \in follows' : /\ f.follower_id = inserting[s].follower_id
                                         /\ f.followee_id = inserting[s].followee_id}
                       = {[follower_id |-> inserting[s].follower_id,
                           followee_id |-> inserting[s].followee_id,
                           status |-> inserting[s].status]}
                    /\ (inserting[t].pc = "waiting" /\ SamePair(s, t))
                         => FollowInsertOutcome(profiles', follows',
                                                inserting[t].follower_id,
                                                inserting[t].follower_id,
                                                inserting[t].followee_id,
                                                inserting[t].status) = "unique_violation"
            /\ (inserting[s].pc = "waiting" /\ inserting'[s].pc = "idle")
                 => /\ follows' = follows
                    /\ FollowInsertOutcome(profiles, follows,
                                           inserting[s].follower_id,
                                           inserting[s].follower_id,
                                           inserting[s].followee_id,
                                           inserting[s].status)
                         \in {"unique_violation", "foreign_key_violation"}]_vars

\* Two requests for one pair overlapped: the first has committed its pending
\* edge, the second, which asked for another status, is about to be answered
\* with the conflict; beside them an edge whose follower the followee rewrote.
C26_Witness ==
  /\ inserting["s1"].pc = "idle"
  /\ inserting["s2"].pc = "waiting"
  /\ inserting["s2"].status = "approved"
  /\ \E f \in follows : /\ f.follower_id = inserting["s2"].follower_id
                        /\ f.followee_id = inserting["s2"].followee_id
                        /\ f.status = "pending"
  /\ ENABLED FollowInsertResume("s2")
  /\ \E f \in follows : f.follower_id = "u3"


\* C27: every step that changes the username of an existing Profile is a
\* successful Rename by that profile's owner, after which an alias row maps the
\* previous name to the new one, and every step that changes a Profile's
\* visibility is made by that profile's owner; a profile update that is not
\* Rename leaves the username as it was.
C27_UsernameChangesOnlyByRename ==
  [][profiles' # profiles =>
       \A u \in DOMAIN profiles \cap DOMAIN profiles' :
         /\ profiles'[u].username # profiles[u].username =>
              /\ \E s \in Sessions : Commits(s) /\ tx[s].uid = u
              /\ [old_username |-> profiles[u].username,
                  current_username |-> profiles'[u].username,
                  user_id |-> u] \in aliases'
         /\ profiles'[u].visibility # profiles[u].visibility =>
              \E v \in ProfileVisibilities : UpdateProfileVisibility(u, u, v)]_vars


\* C28: visible item implies visible owner: in every reachable state and for
\* every viewer, the anonymous one included, CanViewCatalogItem(viewer, item)
\* implies CanViewProfile(viewer, item.owner), so looking up the owner's
\* profile before the item hides no item the viewer may see.
C28_VisibleItemVisibleOwner ==
  \A viewer \in Viewers, item \in user_books :
    CanViewCatalogItem(viewer, item) => CanViewProfile(viewer, item.owner_id)

\* The anonymous viewer reaches a public item of a followers-only owner through
\* the owner's profile, and an approved follower a followers-only item.
C28_Witness ==
  \E item \in user_books, other \in user_books, v \in Users :
    /\ profiles[item.owner_id].visibility = "followers_only"
    /\ item.visibility = "public"
    /\ CanViewCatalogItem(NULL, item)
    /\ CanViewProfile(NULL, item.owner_id)
    /\ other.visibility = "followers_only"
    /\ v # other.owner_id
    /\ CanViewCatalogItem(v, other)
    /\ CanViewProfile(v, other.owner_id)
    /\ ~CanViewCatalogItem(NULL, other)


\* C29: a successful Rename by user u changes only u's Profile.username and the
\* alias rows whose user_id is u, with the one new alias row for u's previous
\* name: every other user's Profile, every alias row of another user (its
\* old_username, current_username and user_id), every profile and item
\* visibility and every follow edge are as before.
C29_RenameFrame ==
  [][\A s \in Sessions :
       Commits(s) =>
         /\ DOMAIN profiles' = DOMAIN profiles
         /\ \A v \in DOMAIN profiles \ {tx[s].uid} : profiles'[v] = profiles[v]
         /\ profiles'[tx[s].uid].visibility = profiles[tx[s].uid].visibility
         /\ {a \in aliases' : a.user_id # tx[s].uid} = {a \in aliases : a.user_id # tx[s].uid}
         /\ {a.old_username : a \in {b \in aliases' : b.user_id = tx[s].uid}}
              = {a.old_username : a \in {b \in aliases : b.user_id = tx[s].uid}}
                \cup {tx[s].prev}
         /\ UNCHANGED <<follows, user_books>>]_vars


\* C30: in every reachable state every Profile.username is in normalized form
\* (trimmed, lowercase), passes Validate and is not Reserved, and no two
\* Profiles have usernames with the same normalized form; this includes the
\* username a Profile gets at account creation, generated or supplied.
C30_UsernamesAreValid ==
  /\ \A u \in DOMAIN profiles :
       /\ normalize_username(profiles[u].username) = profiles[u].username
       /\ is_valid_username(profiles[u].username)
       /\ ~is_reserved_username(profiles[u].username)
  /\ \A u \in DOMAIN profiles, v \in DOMAIN profiles :
       normalize_username(profiles[u].username) = normalize_username(profiles[v].username)
         => u = v

====
